---- MODULE Spec2Model ----
(***************************************************************************)
(* Model of my_custom_player.py: the two decision engines for knight's     *)
(* Isolation (MinimaxAlphaBetaPlayer and MonteCarloUCTPlayer), run against *)
(* a small board of the rules engine.                                      *)
(***************************************************************************)
EXTENDS Integers, Sequences, FiniteSets, TLC

(***************************************************************************)
(* Bounds and constants: the board has W x H cells, the MCTS loop runs at   *)
(* most MaxCycles cycles before its deadline expires.                      *)
(***************************************************************************)
W == 4
H == 3
MaxCycles == 4
depth_limit == 5
Inf == 1000
None == -1

Min(a, b) == IF a <= b THEN a ELSE b
Max(a, b) == IF a >= b THEN a ELSE b

(***************************************************************************)
(* The state abstraction (rules engine): knight's Isolation on a W x H     *)
(* board.  A state is [board, ply_count, locs]; board is the set of open   *)
(* cells, locs[p + 1] the cell of player p (None before its first move).   *)
(***************************************************************************)
Cells == 0..(W * H - 1)
AllCells == [i \in 1..(W * H) |-> i - 1]
Dirs == << <<1, 2>>, <<2, 1>>, <<2, -1>>, <<1, -2>>,
           <<-1, -2>>, <<-2, -1>>, <<-2, 1>>, <<-1, 2>> >>

Dest(c, d) ==
    LET x == (c % W) + d[1]
        y == (c \div W) + d[2]
    IN  IF x \in 0..(W - 1) /\ y \in 0..(H - 1) THEN y * W + x ELSE None

\* the knight moves from each cell, in the order of Dirs, off-board ones dropped
KnightMoves ==
    [c \in Cells |->
        SelectSeq([i \in 1..8 |-> Dest(c, Dirs[i])], LAMBDA x : x # None)]

InitialState == [board |-> Cells, ply_count |-> 0, locs |-> <<None, None>>]

player(s) == s.ply_count % 2

liberties(s, loc) ==
    LET open(c) == c \in s.board
    IN  IF loc = None
        THEN SelectSeq(AllCells, open)
        ELSE SelectSeq(KnightMoves[loc], open)

actions(s) == liberties(s, s.locs[player(s) + 1])

result(s, a) ==
    [board |-> s.board \ {a},
     ply_count |-> s.ply_count + 1,
     locs |-> [s.locs EXCEPT ![player(s) + 1] = a]]

terminal_test(s) == Len(actions(s)) = 0

has_liberties(s, p) == Len(liberties(s, s.locs[p + 1])) > 0

utility(s, p) ==
    IF ~terminal_test(s) THEN 0
    ELSE IF player(s) = p THEN -1 ELSE 1

Range(seq) == {seq[i] : i \in 1..Len(seq)}

(***************************************************************************)
(* MinimaxAlphaBetaPlayer                                                  *)
(***************************************************************************)
score(s, pid) ==
    Len(liberties(s, s.locs[pid + 1])) - Len(liberties(s, s.locs[(1 - pid) + 1]))

\* min_value / max_value return [v, n]: v is the value the Python function
\* returns, n the number of calls of min_value/max_value made to compute it.
RECURSIVE min_value(_, _, _, _, _)
RECURSIVE max_value(_, _, _, _, _)
RECURSIVE min_loop(_, _, _, _, _, _, _, _, _)
RECURSIVE max_loop(_, _, _, _, _, _, _, _, _)

min_prune_beta(value, alpha, beta) == value <= beta

min_prune(value, alpha, beta) == value <= alpha

max_prune(value, alpha, beta) == value >= beta

min_loop(s, acts, i, value, alpha, beta, depth, pid, n) ==
    IF i > Len(acts) THEN [v |-> value, n |-> n]
    ELSE LET r == max_value(result(s, acts[i]), alpha, beta, depth - 1, pid)
             nv == Min(value, r.v)
         IN  IF min_prune(nv, alpha, beta) THEN [v |-> nv, n |-> n + r.n]
             ELSE min_loop(s, acts, i + 1, nv, alpha, Min(beta, nv), depth, pid, n + r.n)

max_loop(s, acts, i, value, alpha, beta, depth, pid, n) ==
    IF i > Len(acts) THEN [v |-> value, n |-> n]
    ELSE LET r == min_value(result(s, acts[i]), alpha, beta, depth - 1, pid)
             nv == Max(value, r.v)
         IN  IF max_prune(nv, alpha, beta) THEN [v |-> nv, n |-> n + r.n]
             ELSE max_loop(s, acts, i + 1, nv, Max(alpha, nv), beta, depth, pid, n + r.n)

min_value(s, alpha, beta, depth, pid) ==
    IF terminal_test(s) THEN [v |-> utility(s, pid), n |-> 1]
    ELSE IF depth <= 0 THEN [v |-> score(s, pid), n |-> 1]
    ELSE min_loop(s, actions(s), 1, Inf, alpha, beta, depth, pid, 1)

max_value(s, alpha, beta, depth, pid) ==
    IF terminal_test(s) THEN [v |-> utility(s, pid), n |-> 1]
    ELSE IF depth <= 0 THEN [v |-> score(s, pid), n |-> 1]
    ELSE max_loop(s, actions(s), 1, -Inf, alpha, beta, depth, pid, 1)

\* key of the root max(): lambda x: min_value(state.result(x), -inf, inf, depth - 1)
root_key(s, a, depth, pid) == min_value(result(s, a), -Inf, Inf, depth - 1, pid).v

\* Python's max(iterable, key=...): the running best is replaced only by a
\* strictly greater key, so the first maximal element is returned.
max_replace_last(k, bestk) == k >= bestk

max_replace(k, bestk) == k > bestk

RECURSIVE root_max(_, _, _, _, _, _, _)
root_max(s, acts, i, best, bestk, depth, pid) ==
    IF i > Len(acts) THEN best
    ELSE LET k == root_key(s, acts[i], depth, pid)
         IN  IF max_replace(k, bestk)
             THEN root_max(s, acts, i + 1, acts[i], k, depth, pid)
             ELSE root_max(s, acts, i + 1, best, bestk, depth, pid)

minimax_alpha_beta(s, depth, pid) ==
    LET acts == actions(s)
    IN  root_max(s, acts, 2, acts[1], root_key(s, acts[1], depth, pid), depth, pid)

(***************************************************************************)
(* MonteCarloUCTPlayer: the search tree is an arena, a sequence of Node    *)
(* records; children and parent are indices into it, parent 0 is None.     *)
(***************************************************************************)
Node(s, parent) ==
    [state |-> s, visits |-> 1, value |-> 0, children |-> <<>>,
     child_actions |-> <<>>, parent |-> parent]

add_child(t, n, child_state, action) ==
    LET c == Len(t) + 1
    IN  Append([t EXCEPT ![n].children = Append(@, c),
                         ![n].child_actions = Append(@, action)],
               Node(child_state, n))

update(node, val) ==
    [node EXCEPT !.value = @ + val, !.visits = @ + 1]

fully_explored(node) == Len(node.child_actions) = Len(actions(node.state))

expand_pick_last(acts, attempted) ==
    CHOOSE i \in 1..Len(acts) :
        /\ acts[i] \notin Range(attempted)
        /\ \A j \in (i + 1)..Len(acts) : acts[j] \in Range(attempted)

\* expand: the first action of state.actions() that is not in child_actions
expand_pick(acts, attempted) ==
    CHOOSE i \in 1..Len(acts) :
        /\ acts[i] \notin Range(attempted)
        /\ \A j \in 1..(i - 1) : acts[j] \in Range(attempted)

expand(t, n) ==
    LET acts == actions(t[n].state)
        a == acts[expand_pick(acts, t[n].child_actions)]
    IN  add_child(t, n, result(t[n].state, a), a)

\* Fixed-point arithmetic for exploit/explore: scores are scaled by Scale;
\* LnTable[p] is ln(p) * Scale^2, so that the square root is scaled by Scale.
Scale == 20000
LnTable == <<0, 277258872, 439444915, 554517744, 643775165, 716703788,
             778364060, 831776617, 878889831, 921034037, 959158109, 993962660>>

RECURSIVE isqrt_between(_, _, _)
isqrt_between(x, lo, hi) ==
    IF lo >= hi THEN lo
    ELSE LET mid == (lo + hi + 1) \div 2
         IN  IF mid * mid <= x THEN isqrt_between(x, mid, hi)
             ELSE isqrt_between(x, lo, mid - 1)

isqrt(x) == isqrt_between(x, 0, 46340)

exploit(t, n) == (t[n].value * Scale) \div t[n].visits

explore(t, n) == isqrt((2 * LnTable[t[t[n].parent].visits]) \div t[n].visits)

ucb(t, n, factor) == exploit(t, n) + factor * explore(t, n)

\* best_child: max(node.children, key=...), first maximal child
RECURSIVE best_child_from(_, _, _, _, _)
best_child_from(t, kids, i, best, factor) ==
    IF i > Len(kids) THEN best
    ELSE IF ucb(t, kids[i], factor) > ucb(t, best, factor)
         THEN best_child_from(t, kids, i + 1, kids[i], factor)
         ELSE best_child_from(t, kids, i + 1, best, factor)

best_child(t, n, factor) ==
    best_child_from(t, t[n].children, 2, t[n].children[1], factor)

\* tree_policy returns [tree, leaf, sel]: the tree after a possible
\* expansion, the node handed to the rollout, and the nodes best_child was
\* applied to on the way down.
needs_expansion(node) == ~fully_explored(node)

RECURSIVE tree_policy(_, _, _)
tree_policy(t, n, sel) ==
    IF terminal_test(t[n].state) THEN [tree |-> t, leaf |-> n, sel |-> sel]
    ELSE IF needs_expansion(t[n])
         THEN [tree |-> expand(t, n), leaf |-> Len(t) + 1, sel |-> sel]
         ELSE tree_policy(t, best_child(t, n, 1), sel \cup {n})

\* the terminal states the random playout of rollout_policy can end in
RECURSIVE RolloutTerminals(_)
RolloutTerminals(s) ==
    IF terminal_test(s) THEN {s}
    ELSE UNION {RolloutTerminals(result(s, actions(s)[i])) : i \in 1..Len(actions(s))}

rollout_reward_root(t, node_state, root_player) ==
    IF has_liberties(t, root_player) THEN -1 ELSE 1

rollout_reward(t, node_state, root_player) ==
    IF has_liberties(t, player(node_state)) THEN -1 ELSE 1

RECURSIVE backprop_noflip(_, _, _)
backprop_noflip(t, n, val) ==
    IF n = 0 THEN t
    ELSE backprop_noflip([t EXCEPT ![n] = update(t[n], val)], t[n].parent, val)

RECURSIVE backprop(_, _, _)
backprop(t, n, val) ==
    IF n = 0 THEN t
    ELSE backprop([t EXCEPT ![n] = update(t[n], val)], t[n].parent, -val)

(***************************************************************************)
(* Program state                                                           *)
(***************************************************************************)
VARIABLES
    state,      \* the game state the match driver hands to get_action
    pc,         \* position of the engine inside get_action
    queue,      \* the values put on self.queue during this get_action call
    depth,      \* loop variable of the iterative deepening
    error,      \* exception raised by get_action ("none" if none)
    tree,       \* MCTS arena: sequence of Node records, root at index 1
    leaf,       \* index of the node returned by tree_policy (0 if none)
    rstate,     \* rollout_policy's local state: where the playout ended
    value,      \* reward returned by rollout_policy
    cycles,     \* completed iterations of the MCTS while loop
    selected    \* nodes best_child was applied to in the last tree_policy

vars == <<state, pc, queue, depth, error, tree, leaf, rstate, value, cycles, selected>>

Init ==
    /\ state = InitialState
    /\ pc = "idle"
    /\ queue = <<>>
    /\ depth = 0
    /\ error = "none"
    /\ tree = <<>>
    /\ leaf = 0
    /\ rstate = InitialState
    /\ value = 0
    /\ cycles = 0
    /\ selected = {}

opening_le(s) == s.ply_count <= 2

\* get_action's test  state.ply_count < 2
opening(s) == s.ply_count < 2

\* The match driver advances the game by one legal move between two calls
\* of get_action.
Play ==
    /\ pc = "idle"
    /\ \E i \in 1..Len(actions(state)) : state' = result(state, actions(state)[i])
    /\ UNCHANGED <<pc, queue, depth, error, tree, leaf, rstate, value, cycles, selected>>

\* get_action, branch ply_count < 2: queue.put(random.choice(state.actions()))
MM_Opening ==
    /\ pc = "idle"
    /\ opening(state)
    /\ \E i \in 1..Len(actions(state)) : queue' = Append(queue, actions(state)[i])
    /\ pc' = "done"
    /\ UNCHANGED <<state, depth, error, tree, leaf, rstate, value, cycles, selected>>

MM_Start_depth0 ==
    /\ pc = "idle"
    /\ ~opening(state)
    /\ depth' = 0
    /\ pc' = "deepening"
    /\ UNCHANGED <<state, queue, error, tree, leaf, rstate, value, cycles, selected>>

\* get_action, else branch: enter the loop  for depth in range(1, depth_limit + 1)
MM_Start ==
    /\ pc = "idle"
    /\ ~opening(state)
    /\ depth' = 1
    /\ pc' = "deepening"
    /\ UNCHANGED <<state, queue, error, tree, leaf, rstate, value, cycles, selected>>

\* one iteration of the loop: queue.put(minimax_alpha_beta(state, depth));
\* max() of an empty state.actions() raises ValueError.
MM_Deepen ==
    /\ pc = "deepening"
    /\ IF Len(actions(state)) = 0
       THEN /\ error' = "ValueError"
            /\ pc' = "done"
            /\ UNCHANGED <<queue, depth>>
       ELSE /\ queue' = Append(queue, minimax_alpha_beta(state, depth, player(state)))
            /\ depth' = depth + 1
            /\ pc' = IF depth + 1 > depth_limit THEN "done" ELSE "deepening"
            /\ error' = error
    /\ UNCHANGED <<state, tree, leaf, rstate, value, cycles, selected>>

NextMM == Play \/ MM_Opening \/ MM_Start \/ MM_Deepen

SpecMM == Init /\ [][NextMM]_vars

\* MonteCarloUCTPlayer.get_action, branch ply_count < 2
MC_Opening ==
    /\ pc = "idle"
    /\ opening(state)
    /\ \E i \in 1..Len(actions(state)) : queue' = Append(queue, actions(state)[i])
    /\ pc' = "done"
    /\ UNCHANGED <<state, depth, error, tree, leaf, rstate, value, cycles, selected>>

\* monte_carlo_uct up to the while loop: root = Node(state); a terminal root
\* returns random.choice(state.actions()), which raises IndexError on an
\* empty sequence.
MC_Start ==
    /\ pc = "idle"
    /\ ~opening(state)
    /\ tree' = <<Node(state, 0)>>
    /\ IF terminal_test(state)
       THEN /\ pc' = "done"
            /\ IF Len(actions(state)) = 0
               THEN error' = "IndexError" /\ queue' = queue
               ELSE /\ error' = error
                    /\ \E i \in 1..Len(actions(state)) :
                           queue' = Append(queue, actions(state)[i])
       ELSE /\ pc' = "loop"
            /\ UNCHANGED <<queue, error>>
    /\ UNCHANGED <<state, depth, leaf, rstate, value, cycles, selected>>

\* while time.time() < timer_end (deadline not reached): leaf = tree_policy(root)
MC_TreePolicy ==
    /\ pc = "loop"
    /\ cycles < MaxCycles
    /\ LET r == tree_policy(tree, 1, {})
       IN  /\ tree' = r.tree
           /\ leaf' = r.leaf
           /\ selected' = r.sel
    /\ pc' = "rollout"
    /\ UNCHANGED <<state, queue, depth, error, rstate, value, cycles>>

\* value = rollout_policy(leaf, state.player())
MC_Rollout ==
    /\ pc = "rollout"
    /\ \E t \in RolloutTerminals(tree[leaf].state) :
           /\ rstate' = t
           /\ value' = rollout_reward(t, tree[leaf].state, player(state))
    /\ pc' = "backprop"
    /\ UNCHANGED <<state, queue, depth, error, tree, leaf, cycles, selected>>

\* backprop(leaf, value), end of one iteration of the while loop
MC_Backprop ==
    /\ pc = "backprop"
    /\ tree' = backprop(tree, leaf, value)
    /\ cycles' = cycles + 1
    /\ rstate' = InitialState
    /\ pc' = "loop"
    /\ UNCHANGED <<state, queue, depth, error, leaf, value, selected>>

\* the deadline check fails: result = root.children.index(best_child(root, 0));
\* max() over an empty root.children raises ValueError.
MC_Finish ==
    /\ pc = "loop"
    /\ IF Len(tree[1].children) = 0
       THEN error' = "ValueError" /\ queue' = queue
       ELSE LET b == best_child(tree, 1, 0)
                result_index == CHOOSE i \in 1..Len(tree[1].children) :
                                    /\ tree[1].children[i] = b
                                    /\ \A j \in 1..(i - 1) : tree[1].children[j] # b
            IN  /\ queue' = Append(queue, tree[1].child_actions[result_index])
                /\ error' = error
    /\ pc' = "done"
    /\ UNCHANGED <<state, depth, tree, leaf, rstate, value, cycles, selected>>

NextMCTS ==
    Play \/ MC_Opening \/ MC_Start \/ MC_TreePolicy \/ MC_Rollout \/ MC_Backprop \/ MC_Finish

SpecMCTS == Init /\ [][NextMCTS]_vars

\* CustomPlayer is one of the two engines
Next ==
    \/ Play
    \/ MM_Opening \/ MM_Start \/ MM_Deepen
    \/ MC_Opening \/ MC_Start \/ MC_TreePolicy \/ MC_Rollout \/ MC_Backprop \/ MC_Finish

Spec == Init /\ [][Next]_vars

(***************************************************************************)
(* Reference definitions used by the properties                            *)
(***************************************************************************)
SetMin(S) == CHOOSE x \in S : \A y \in S : x <= y
SetMax(S) == CHOOSE x \in S : \A y \in S : x >= y

Successors(s) == {result(s, actions(s)[i]) : i \in 1..Len(actions(s))}

\* depth-limited minimax without pruning: value and size of the full tree
RECURSIVE PlainMin(_, _, _)
RECURSIVE PlainMax(_, _, _)
PlainMin(s, d, pid) ==
    IF terminal_test(s) THEN utility(s, pid)
    ELSE IF d <= 0 THEN score(s, pid)
    ELSE SetMin({PlainMax(c, d - 1, pid) : c \in Successors(s)})

PlainMax(s, d, pid) ==
    IF terminal_test(s) THEN utility(s, pid)
    ELSE IF d <= 0 THEN score(s, pid)
    ELSE SetMax({PlainMin(c, d - 1, pid) : c \in Successors(s)})

RECURSIVE PlainSize(_, _)
PlainSize(s, d) ==
    IF terminal_test(s) \/ d <= 0 THEN 1
    ELSE LET acts == actions(s)
             sizes == [i \in 1..Len(acts) |-> PlainSize(result(s, acts[i]), d - 1)]
             sum[i \in 0..Len(acts)] == IF i = 0 THEN 0 ELSE sum[i - 1] + sizes[i]
         IN  1 + sum[Len(acts)]

\* the first action, in the order of actions(s), whose unpruned value is maximal
PlainChoice(s, d, pid) ==
    LET acts == actions(s)
        key == [i \in 1..Len(acts) |-> PlainMin(result(s, acts[i]), d - 1, pid)]
        first == CHOOSE i \in 1..Len(acts) :
                     /\ \A j \in 1..Len(acts) : key[j] <= key[i]
                     /\ \A j \in 1..(i - 1) : key[j] < key[i]
    IN  acts[first]

\* pid can force a terminal state of utility +1 within d plies of s
RECURSIVE WinWithin(_, _, _)
WinWithin(s, d, pid) ==
    IF terminal_test(s) THEN utility(s, pid) = 1
    ELSE IF d <= 0 THEN FALSE
    ELSE IF player(s) = pid
         THEN \E c \in Successors(s) : WinWithin(c, d - 1, pid)
         ELSE \A c \in Successors(s) : WinWithin(c, d - 1, pid)

Last(seq) == seq[Len(seq)]

SearchedRoot == state.ply_count >= 2 /\ ~terminal_test(state)

(***************************************************************************)
(* C1: alpha-beta equivalence.  For every game state, every depth 0..5 and *)
(* either player as the engine, min_value and max_value called with the    *)
(* full window (-inf, +inf) return the value of the unpruned depth-limited *)
(* minimax, and minimax_alpha_beta chooses the action the unpruned search  *)
(* chooses.                                                                *)
(***************************************************************************)
C1_AlphaBetaEquivalence ==
    pc = "idle" =>
        \A d \in 0..depth_limit : \A pid \in {0, 1} :
            /\ min_value(state, -Inf, Inf, d, pid).v = PlainMin(state, d, pid)
            /\ max_value(state, -Inf, Inf, d, pid).v = PlainMax(state, d, pid)
            /\ (d >= 1 /\ ~terminal_test(state)) =>
                   minimax_alpha_beta(state, d, pid) = PlainChoice(state, d, pid)

\* a finished depth-5 search in which pruning skipped part of the tree
C1_Witness ==
    /\ pc = "done" /\ SearchedRoot /\ Len(queue) = depth_limit
    /\ \E c \in Successors(state) :
           /\ min_value(c, -Inf, Inf, depth_limit - 1, player(state)).n
                  < PlainSize(c, depth_limit - 1)
           /\ min_value(c, -Inf, Inf, depth_limit - 1, player(state)).v
                  = PlainMin(c, depth_limit - 1, player(state))

(***************************************************************************)
(* C2: iterative deepening.  For a non-terminal state with ply_count >= 2  *)
(* get_action pushes once per depth, in the order 1, 2, ..., 5; the i-th   *)
(* value pushed is the result of the completed depth-i search and a legal  *)
(* action of the root; the sink only grows, so it is never empty after the *)
(* first push and its last value is that of the deepest completed search.  *)
(***************************************************************************)
C2_SinkHoldsCompletedSearches ==
    (SearchedRoot /\ pc \in {"deepening", "done"}) =>
        /\ error = "none"
        /\ Len(queue) = depth - 1
        /\ pc = "done" => Len(queue) = depth_limit
        /\ \A i \in 1..Len(queue) :
               /\ queue[i] \in Range(actions(state))
               /\ queue[i] = PlainChoice(state, i, player(state))

C2_SinkOnlyGrows ==
    (SearchedRoot /\ pc = "deepening") =>
        /\ Len(queue') = Len(queue) + 1
        /\ SubSeq(queue', 1, Len(queue)) = queue

C2_IterativeDeepening ==
    [](C2_SinkHoldsCompletedSearches) /\ [][C2_SinkOnlyGrows]_vars

\* all five depths were pushed and a deeper search changed the choice
C2_Witness ==
    /\ pc = "done" /\ SearchedRoot
    /\ Len(queue) = depth_limit
    /\ queue[1] # queue[depth_limit]

(***************************************************************************)
(* C3: forced-win selection.  When some legal action of a non-terminal     *)
(* root with ply_count >= 2 leads to a win the engine can force inside the *)
(* 5-ply horizon, the depth-5 result (the last value pushed) is an action  *)
(* that leads to such a forced win.                                        *)
(***************************************************************************)
C3_ForcedWinSelected ==
    (/\ pc = "done" /\ SearchedRoot /\ Len(queue) = depth_limit
     /\ \E c \in Successors(state) : WinWithin(c, depth_limit - 1, player(state)))
        => WinWithin(result(state, Last(queue)), depth_limit - 1, player(state))

(***************************************************************************)
(* C7: root selection.  minimax_alpha_beta(state, d) returns the action    *)
(* maximizing min_value(result(a), -inf, +inf, d - 1), the first such      *)
(* action in the order of state.actions() when several attain the maximum. *)
(***************************************************************************)
FirstArgmaxOfRootKeys(s, d, pid, a) ==
    LET acts == actions(s)
        key == [j \in 1..Len(acts) |->
                    min_value(result(s, acts[j]), -Inf, Inf, d - 1, pid).v]
    IN  \E i \in 1..Len(acts) :
            /\ acts[i] = a
            /\ \A j \in 1..Len(acts) : key[j] <= key[i]
            /\ \A j \in 1..(i - 1) : key[j] < key[i]

C7_RootSelection ==
    /\ (pc = "idle" /\ ~terminal_test(state)) =>
           \A d \in 1..depth_limit :
               FirstArgmaxOfRootKeys(state, d, player(state),
                                     minimax_alpha_beta(state, d, player(state)))
    /\ (SearchedRoot /\ pc \in {"deepening", "done"}) =>
           \A d \in 1..Len(queue) :
               FirstArgmaxOfRootKeys(state, d, player(state), queue[d])

\* a pushed action that ties with a later root action for the maximum
C7_Witness ==
    /\ pc = "done" /\ SearchedRoot /\ Len(queue) = depth_limit
    /\ \E b \in Range(actions(state)) :
           /\ b # Last(queue)
           /\ root_key(state, b, depth_limit, player(state))
                  = root_key(state, Last(queue), depth_limit, player(state))

(***************************************************************************)
(* C4: MCTS always answers.  For a non-terminal root with ply_count >= 2,  *)
(* MonteCarloUCTPlayer.get_action pushes exactly one value, a legal action *)
(* of the root taken from the root's children, however many search cycles  *)
(* completed before the deadline was seen expired (zero included).         *)
(***************************************************************************)
C4_MCTSAlwaysAnswers ==
    (pc = "done" /\ SearchedRoot) =>
        /\ error = "none"
        /\ Len(queue) = 1
        /\ queue[1] \in Range(actions(state))
        /\ queue[1] \in Range(tree[1].child_actions)

(***************************************************************************)
(* C5: terminal root.  monte_carlo_uct on a state whose terminal_test() is *)
(* true returns a legal action of that state without raising and without   *)
(* any expansion, rollout or backpropagation.                              *)
(***************************************************************************)
C5_TerminalRootAnswers ==
    (pc = "done" /\ state.ply_count >= 2 /\ terminal_test(state)) =>
        /\ error = "none"
        /\ Len(queue) = 1
        /\ queue[1] \in Range(actions(state))
        /\ Len(tree) = 1 /\ cycles = 0 /\ leaf = 0

(***************************************************************************)
(* C6: opening policy.  In both engines a get_action call on a state with  *)
(* ply_count < 2 pushes exactly one value, a legal action, and runs no     *)
(* search (no deepening iteration, no tree node, no rollout); with         *)
(* ply_count >= 2 the opening branch is not taken: the call enters a       *)
(* search.                                                                 *)
(***************************************************************************)
C6_OpeningPolicy ==
    /\ state.ply_count < 2 =>
           /\ pc \in {"idle", "done"}
           /\ depth = 0 /\ tree = <<>> /\ leaf = 0 /\ cycles = 0
           /\ error = "none"
           /\ pc = "idle" => queue = <<>>
           /\ pc = "done" => Len(queue) = 1 /\ queue[1] \in Range(actions(state))
    /\ (state.ply_count >= 2 /\ pc = "done") => (depth >= 1 \/ Len(tree) >= 1)

\* an opening move made by the second player
C6_Witness ==
    /\ pc = "done" /\ state.ply_count = 1
    /\ Len(queue) = 1 /\ queue[1] \in Range(actions(state))

(***************************************************************************)
(* C8: rollout reward sign.  As claimed: the reward of a rollout from node *)
(* n that ended in terminal state t is +1 if n.state.player() has          *)
(* liberties in t and -1 otherwise.                                        *)
(***************************************************************************)
C8_RewardSignAsClaimed ==
    pc = "backprop" =>
        value = IF has_liberties(rstate, player(tree[leaf].state)) THEN 1 ELSE -1

(***************************************************************************)
(* C8 (amended): the reward is -1 if n.state.player() has liberties in t   *)
(* and +1 otherwise; it depends on t and on the player to move at n only,  *)
(* not on the root player nor on who is to move in t.                      *)
(***************************************************************************)
C8_RewardSign ==
    pc = "backprop" =>
        /\ terminal_test(rstate)
        /\ value = IF has_liberties(rstate, player(tree[leaf].state)) THEN -1 ELSE 1

\* a rollout whose node player is neither the root player nor the player to
\* move at the end, and still has liberties there
C8_Witness ==
    /\ pc = "backprop"
    /\ player(tree[leaf].state) # player(state)
    /\ player(tree[leaf].state) # player(rstate)
    /\ has_liberties(rstate, player(tree[leaf].state))
    /\ value = -1

(***************************************************************************)
(* C9: backpropagation.  One backprop(leaf, r) changes exactly the nodes   *)
(* on the parent chain from leaf to the root: the node k levels above the  *)
(* leaf gets visits + 1 and value + (-1)^k * r; every other node and every *)
(* other field is unchanged.  Hence root.visits = 1 + completed cycles and *)
(* every node has visits >= 1.                                             *)
(***************************************************************************)
RECURSIVE ChainDist(_, _, _)
ChainDist(t, from, n) ==
    IF from = 0 THEN -1
    ELSE IF from = n THEN 0
    ELSE LET d == ChainDist(t, t[from].parent, n)
         IN  IF d = -1 THEN -1 ELSE d + 1

Sign(k) == IF k % 2 = 0 THEN 1 ELSE -1

C9_BackpropStep ==
    (pc = "backprop" /\ pc' = "loop") =>
        /\ Len(tree') = Len(tree)
        /\ ChainDist(tree, leaf, 1) >= 0
        /\ \A n \in 1..Len(tree) :
               LET k == ChainDist(tree, leaf, n)
               IN  IF k >= 0
                   THEN tree'[n] = [tree[n] EXCEPT !.visits = @ + 1,
                                                   !.value = @ + Sign(k) * value]
                   ELSE tree'[n] = tree[n]

C9_Visits ==
    Len(tree) >= 1 =>
        /\ tree[1].visits = 1 + cycles
        /\ \A n \in 1..Len(tree) : tree[n].visits >= 1

C9_BackpropConservation == [][C9_BackpropStep]_vars /\ [](C9_Visits)

\* a backpropagation from a grandchild of the root has just completed
C9_Witness ==
    /\ pc = "loop" /\ cycles >= 1 /\ leaf # 0
    /\ tree[leaf].parent # 0
    /\ tree[tree[leaf].parent].parent # 0
    /\ tree[leaf].value # 0

(***************************************************************************)
(* C10: expansion order and tree shape.  tree_policy expands only a        *)
(* non-terminal node that is not fully explored, attaching one child for   *)
(* the first action not yet attempted.  Every node has as many children as *)
(* attempted actions, its attempted actions are a duplicate-free prefix of *)
(* state.actions(), child i holds state.result(child_actions[i]), and      *)
(* best_child is applied during selection only to fully explored nodes     *)
(* (which have at least one child).                                        *)
(***************************************************************************)
IsPrefix(p, s) == Len(p) <= Len(s) /\ \A i \in 1..Len(p) : p[i] = s[i]

C10_Shape ==
    /\ \A n \in 1..Len(tree) :
           LET node == tree[n]
               acts == actions(node.state)
           IN  /\ Len(node.children) = Len(node.child_actions)
               /\ Len(node.child_actions) <= Len(acts)
               /\ IsPrefix(node.child_actions, acts)
               /\ \A i, j \in 1..Len(node.child_actions) :
                      i # j => node.child_actions[i] # node.child_actions[j]
               /\ \A i \in 1..Len(node.children) :
                      /\ node.children[i] \in 1..Len(tree)
                      /\ tree[node.children[i]].parent = n
                      /\ tree[node.children[i]].state
                             = result(node.state, node.child_actions[i])
    /\ \A n \in selected :
           /\ ~terminal_test(tree[n].state)
           /\ Len(tree[n].child_actions) = Len(actions(tree[n].state))
           /\ Len(tree[n].children) >= 1

C10_ExpandStep ==
    (pc = "loop" /\ pc' = "rollout") =>
        IF Len(tree') = Len(tree)
        THEN tree' = tree /\ terminal_test(tree[leaf'].state)
        ELSE LET p == tree'[Len(tree')].parent
             IN  /\ Len(tree') = Len(tree) + 1
                 /\ leaf' = Len(tree')
                 /\ p \in 1..Len(tree)
                 /\ ~terminal_test(tree[p].state)
                 /\ Len(tree[p].child_actions) < Len(actions(tree[p].state))
                 /\ tree'[p].child_actions
                        = Append(tree[p].child_actions,
                                 actions(tree[p].state)[Len(tree[p].child_actions) + 1])
                 /\ tree'[p].children = Append(tree[p].children, leaf')
                 /\ \A n \in 1..Len(tree) : n # p => tree'[n] = tree[n]

C10_ExpansionOrder == [][C10_ExpandStep]_vars /\ [](C10_Shape)

\* selection went through a fully explored root with several children and
\* expanded one of its children
C10_Witness ==
    /\ pc = "rollout"
    /\ 1 \in selected
    /\ Len(tree[1].children) >= 2
    /\ tree[leaf].parent # 1
    /\ tree[leaf].parent # 0

====
